---- MODULE Spec2Model ----
(***************************************************************************)
(* A model of gradescope_utils.autograder_utils: the decorators that       *)
(* attach grading metadata to a test function (decorators.py), the         *)
(* invocation of a decorated test, and the runner that skips time-locked   *)
(* tests (json_test_runner_with_locks.py).                                 *)
(*                                                                         *)
(* A Python function object is an object id with an attribute dictionary   *)
(* (its __dict__).  A dictionary is a TLA+ function whose DOMAIN is the    *)
(* set of attribute names present.                                         *)
(***************************************************************************)
EXTENDS Integers, Sequences, FiniteSets, TLC

\* --------------------------------------------------------------- bounds
\* The largest number of decorators applied to the test function.
MaxStack == 3
\* The largest number of statements in a test body.
MaxBody == 2
\* The largest number of invocations of the decorated test.
MaxRuns == 2

\* ------------------------------------------------------- input domains
\* weight(val)
Weights == {1, 2}
\* partial_credit(weight)
PartialWeights == {2}
\* Values a test body passes to set_score.
ScoreVals == {1, 2}
\* Values a test body passes to set_leaderboard_value.
BoardVals == {42}
\* Tokens a test body passes to set_custom_output.
OutputVals == {7}
\* timeout(seconds, error_message): <<>> stands for error_message=None.
TimeoutArgs == {<<1, <<>>>>, <<2, <<"too slow">>>>}
\* leaderboard(column_name)
Columns == {"score"}
\* custom_output(format, mode) pairs used by the tests.
OutputArgs == {<<"html", "replace">>, <<"html", "append">>, <<"text", "error_only">>}

\* ------------------------------------------------------- dictionaries
EmptyDict == [k \in {} |-> 0]

\* d[k] = v
SetAttr(d, k, v) == [x \in (DOMAIN d) \cup {k} |-> IF x = k THEN v ELSE d[x]]

\* d.update(e): every key of e overrides the key of d.
DictUpdate(d, e) ==
  [x \in (DOMAIN d) \cup (DOMAIN e) |-> IF x \in DOMAIN e THEN e[x] ELSE d[x]]

\* getattr(obj, k, default)
GetAttr(d, k, default) == IF k \in DOMAIN d THEN d[k] ELSE default

\* None, and a value that is not None.
Null == <<>>
Some(v) == <<v>>

\* str(n) for a natural number.
Digit == <<"0", "1", "2", "3", "4", "5", "6", "7", "8", "9">>
RECURSIVE IntToStr(_)
IntToStr(n) == IF n < 10 THEN Digit[n + 1] ELSE IntToStr(n \div 10) \o Digit[(n % 10) + 1]

\* ----------------------------------------------------------- decorators
\* A test unit: objs[k] describes function object k (objs[1] is the undecorated
\* test function, objs[k].func the object that wrapper k wraps), attrs[k] is its
\* __dict__.  The outermost object is the last one.
NewUnit ==
  [objs  |-> <<[kind |-> "function", self |-> [kind |-> "function"], func |-> 0]>>,
   attrs |-> <<EmptyDict>>]

Top(u) == Len(u.objs)

\* functools.update_wrapper(wrapper, wrapped): wrapper.__dict__.update(wrapped.__dict__),
\* then wrapper.__wrapped__ = wrapped.
update_wrapper(attrs, wrapper, wrapped) ==
  [attrs EXCEPT ![wrapper] = SetAttr(DictUpdate(@, attrs[wrapped]), "__wrapped__", wrapped)]

\* @wraps(func) def wrapper(...): a new function object holding a copy of func's attributes.
wraps(u, kind, self) ==
  LET func == Top(u)
  IN  [objs  |-> Append(u.objs, [kind |-> kind, self |-> self, func |-> func]),
       attrs |-> update_wrapper(Append(u.attrs, EmptyDict), func + 1, func)]

\* func.<name> = value on the object being decorated.
SetOnFunc(u, name, value) == [u EXCEPT !.attrs[Top(u)] = SetAttr(@, name, value)]

weight_init(val) == [kind |-> "weight", val |-> val]

\* A weight decorator that returns func without setting the attribute.
weight_call_nothing_set(self, u) == u

\* weight.__call__: sets the attribute and returns func itself (no wrapper).
weight_call(self, u) == SetOnFunc(u, "__weight__", self.val)

leaderboard_init(column_name, sort_order) ==
  [kind |-> "leaderboard", column_name |-> column_name, sort_order |-> sort_order]

\* A leaderboard decorator that does not record its column on func.
leaderboard_call_no_column(self, u) == wraps(u, "leaderboard", self)

leaderboard_call(self, u) ==
  wraps(SetOnFunc(SetOnFunc(u, "__leaderboard_column__", self.column_name),
                  "__leaderboard_sort_order__", self.sort_order),
        "leaderboard", self)

partial_credit_init(weight) == [kind |-> "partial_credit", weight |-> weight]

partial_credit_call(self, u) ==
  wraps(SetOnFunc(u, "__weight__", self.weight), "partial_credit", self)

\* timeout.__init__: the default message is formatted from the seconds.
timeout_init(seconds, error_message) ==
  [kind          |-> "timeout",
   seconds       |-> seconds,
   error_message |-> IF error_message = Null
                     THEN "test timed out after " \o IntToStr(seconds) \o "s."
                     ELSE error_message[1]]

timeout_call(self, u) == wraps(u, "timeout", self)

custom_output_init(format, mode) == [kind |-> "custom_output", format |-> format, mode |-> mode]

\* custom_output.FORMATS and custom_output.MODES
FORMATS == {"text", "html", "simple_format", "md", "ansi"}

MODES == {"error_only", "replace", "append"}

\* A constructor of custom_output that accepts every format and mode.
custom_output_unchecked(format, mode) == [ok |-> TRUE, self |-> custom_output_init(format, mode)]

\* custom_output(format, mode): __init__ raises ValueError for a format or a mode
\* outside the lists, before anything is stored.
custom_output(format, mode) ==
  IF format \notin FORMATS
  THEN [ok |-> FALSE, error |-> "ValueError",
        msg |-> "format must be one of the gradescope-approved formats"]
  ELSE IF mode \notin MODES
  THEN [ok |-> FALSE, error |-> "ValueError", msg |-> "mode must be one of the following"]
  ELSE [ok |-> TRUE, self |-> custom_output_init(format, mode)]

custom_output_call(self, u) ==
  wraps(SetOnFunc(SetOnFunc(u, "__output_format__", self.format),
                  "__custom_output_mode__", self.mode),
        "custom_output", self)

\* A timestamp given to available_from or found in GS_NOW_UTC: an instant is a
\* number of hours; wall is the wall-clock reading written in the value, offset
\* its UTC offset in hours (Null: naive), z whether a string ends in "Z".
Timestamp(type, wall, offset, z) == [type |-> type, wall |-> wall, offset |-> offset, z |-> z]

ValueError(msg) == [ok |-> FALSE, error |-> "ValueError", msg |-> msg]

\* datetime.astimezone(timezone.utc) of an aware value: the instant it names.
astimezone_utc(wall, offset) == wall - offset

\* A parse that takes the wall-clock reading of every value for UTC.
parse_iso8601_wall(s) ==
  IF s.type \in {"str", "datetime"} THEN [ok |-> TRUE, dt |-> s.wall]
  ELSE ValueError("available_from: expected string or datetime")

\* _parse_iso8601_utc: None and unsupported types are rejected, a trailing Z is
\* read as +00:00, a naive value is taken as UTC, an offset is converted.
parse_iso8601_utc(s) ==
  IF s.type = "none" THEN ValueError("available_from: timestamp string required")
  ELSE IF s.type = "datetime"
  THEN [ok |-> TRUE,
        dt |-> IF s.offset = Null THEN astimezone_utc(s.wall, 0)
               ELSE astimezone_utc(s.wall, s.offset[1])]
  ELSE IF s.type # "str"
  THEN ValueError("available_from: expected string or datetime")
  ELSE LET offset == IF s.z THEN <<0>> ELSE s.offset
       IN  [ok |-> TRUE,
            dt |-> IF offset = Null THEN astimezone_utc(s.wall, 0)
                   ELSE astimezone_utc(s.wall, offset[1])]

\* available_from.__init__ with a timestamp that parses.
available_from_init(when, reason) ==
  [kind |-> "available_from", when |-> when, reason |-> reason,
   unlock_dt |-> parse_iso8601_utc(when).dt]

\* available_from(when, reason=...): __init__ stores when and reason and parses
\* when; the ValueError of _parse_iso8601_utc leaves it.
available_from(when, reason) ==
  IF parse_iso8601_utc(when).ok
  THEN [ok |-> TRUE, self |-> available_from_init(when, reason)]
  ELSE parse_iso8601_utc(when)

\* available_from.__call__: the unlock time, and the reason when there is one,
\* are set on func; the wrapper is a plain @wraps(func) function.
available_from_call(self, u) ==
  LET u1 == SetOnFunc(u, "__gs_available_from__", self.unlock_dt)
      u2 == IF self.reason # Null /\ self.reason[1] # ""
            THEN SetOnFunc(u1, "__gs_available_from_reason__", self.reason[1])
            ELSE u1
  IN  wraps(u2, "available_from", self)

\* decorator(func) for any of the decorators above.
Decorate(u, d) ==
  CASE d.kind = "weight"         -> weight_call(d, u)
    [] d.kind = "leaderboard"    -> leaderboard_call(d, u)
    [] d.kind = "partial_credit" -> partial_credit_call(d, u)
    [] d.kind = "timeout"        -> timeout_call(d, u)
    [] d.kind = "custom_output"  -> custom_output_call(d, u)
    [] d.kind = "available_from" -> available_from_call(d, u)

\* The decorators of a sequence applied first to last (the last is outermost).
RECURSIVE DecorateAll(_, _)
DecorateAll(u, ds) == IF ds = <<>> THEN u ELSE DecorateAll(Decorate(u, Head(ds)), Tail(ds))

\* ----------------------------------------------------------- invocation
NoExc == [type |-> "none", msg |-> ""]
NoHandler == [kind |-> "none"]

\* The state one invocation threads through the wrappers: the attribute
\* dictionaries, the keyword arguments passed inward, the process-wide alarm
\* (seconds left, 0: none pending) with its SIGALRM handler, and the exception
\* in flight.  replaced records that signal.alarm() was called while an alarm
\* was pending (its return value, which the code drops, was non-zero); calls
\* lists the setters the body called.
InvocationState(attrs, alarm, handler) ==
  [attrs |-> attrs, kwargs |-> EmptyDict, alarm |-> alarm, handler |-> handler,
   exc |-> NoExc, replaced |-> FALSE, calls |-> <<>>]

\* A set_score that keeps the first score written.
set_score_first_wins(wrapper, x, attrs) ==
  IF "__score__" \in DOMAIN attrs[wrapper] THEN attrs
  ELSE [attrs EXCEPT ![wrapper] = SetAttr(@, "__score__", x)]

\* The closures set_score / set_leaderboard_value / set_custom_output: each writes
\* on the wrapper it was defined with.
set_score(wrapper, x, attrs) == [attrs EXCEPT ![wrapper] = SetAttr(@, "__score__", x)]
set_leaderboard_value(wrapper, x, attrs) ==
  [attrs EXCEPT ![wrapper] = SetAttr(@, "__leaderboard_value__", x)]
set_custom_output(wrapper, x, attrs) ==
  [attrs EXCEPT ![wrapper] = SetAttr(@, "__custom_output__", x)]

\* timeout.handle_timeout: the SIGALRM handler raises TestTimeout(error_message).
handle_timeout(self) == [type |-> "TestTimeout", msg |-> self.error_message]

\* timeout.__enter__: install the handler, arm the alarm (replacing a pending one).
timeout_enter(self, st) ==
  [st EXCEPT !.handler = self, !.alarm = self.seconds,
             !.replaced = @ \/ (st.alarm > 0)]

\* A timeout that clears the alarm on a normal return only.
timeout_exit_on_return_only(self, st) ==
  IF st.exc = NoExc THEN [st EXCEPT !.alarm = 0] ELSE st

\* timeout.__exit__: signal.alarm(0) on every exit path.
timeout_exit(self, st) == [st EXCEPT !.alarm = 0]

\* A refresh of the wrapper that is skipped when the call raised (an update
\* written after the call instead of in __exit__).
update_wrapper_after_call_on_return_only(wrapper, func, st) ==
  IF st.exc = NoExc THEN [st EXCEPT !.attrs = update_wrapper(@, wrapper, func)] ELSE st

\* _update_wrapper_after_call.__exit__: runs on every exit path and lets the
\* exception through.
update_wrapper_after_call_exit(wrapper, func, st) ==
  [st EXCEPT !.attrs = update_wrapper(@, wrapper, func)]

\* The text a body passes to set_custom_output for token x.
OutputText(x) == "out" \o IntToStr(x)

\* Statements of a test body.
BodyOps ==
  [op : {"set_score"}, x : ScoreVals] \cup [op : {"set_leaderboard_value"}, x : BoardVals]
  \cup [op : {"set_custom_output"}, x : OutputVals]
  \cup [op : {"sleep"}, x : {1}] \cup [op : {"fail"}, x : {0}]

\* time.sleep(secs) with the alarm counting down: the handler runs in the
\* sleeping frame once the seconds left are used up.
Sleep(st, secs) ==
  IF st.alarm > 0 /\ secs >= st.alarm
  THEN [st EXCEPT !.alarm = 0, !.exc = handle_timeout(st.handler)]
  ELSE [st EXCEPT !.alarm = IF @ > 0 THEN @ - secs ELSE 0]

\* One statement of the body; a setter the wrappers did not inject is not called.
Statement(st, s) ==
  CASE s.op = "sleep" -> Sleep(st, s.x)
    [] s.op = "fail"  -> [st EXCEPT !.exc = [type |-> "AssertionError", msg |-> "Failure"]]
    [] s.op = "raise" -> [st EXCEPT !.exc = [type |-> "RuntimeError", msg |-> "boom"]]
    [] s.op = "set_score" ->
         IF "set_score" \in DOMAIN st.kwargs
         THEN [st EXCEPT !.attrs = set_score(st.kwargs["set_score"], s.x, @),
                         !.calls = Append(@, s)]
         ELSE st
    [] s.op = "set_leaderboard_value" ->
         IF "set_leaderboard_value" \in DOMAIN st.kwargs
         THEN [st EXCEPT !.attrs = set_leaderboard_value(st.kwargs["set_leaderboard_value"], s.x, @),
                         !.calls = Append(@, s)]
         ELSE st
    [] s.op = "set_custom_output" ->
         IF "set_custom_output" \in DOMAIN st.kwargs
         THEN [st EXCEPT !.attrs = set_custom_output(st.kwargs["set_custom_output"], OutputText(s.x), @),
                         !.calls = Append(@, s)]
         ELSE st

\* The body runs its statements in order until one raises.
RECURSIVE RunBody(_, _)
RunBody(st, body) ==
  IF body = <<>> \/ st.exc # NoExc THEN st
  ELSE RunBody(Statement(st, Head(body)), Tail(body))

RECURSIVE Call(_, _, _, _)

\* leaderboard.__call__.wrapper
leaderboard_wrapper(objs, w, st, body) ==
  update_wrapper_after_call_exit(w, objs[w].func,
    Call(objs, objs[w].func,
         [st EXCEPT !.kwargs = SetAttr(@, "set_leaderboard_value", w)], body))

\* partial_credit.__call__.wrapper
partial_credit_wrapper(objs, w, st, body) ==
  update_wrapper_after_call_exit(w, objs[w].func,
    Call(objs, objs[w].func, [st EXCEPT !.kwargs = SetAttr(@, "set_score", w)], body))

\* A timeout wrapper that does not refresh itself from the wrapped function after
\* the call (with self: func() alone).
timeout_wrapper_no_update(objs, w, st, body) ==
  timeout_exit(objs[w].self,
    Call(objs, objs[w].func, timeout_enter(objs[w].self, st), body))

\* timeout.__call__.wrapper: with _update_wrapper_after_call: with self: func()
timeout_wrapper(objs, w, st, body) ==
  update_wrapper_after_call_exit(w, objs[w].func,
    timeout_exit(objs[w].self,
      Call(objs, objs[w].func, timeout_enter(objs[w].self, st), body)))

\* A custom_output wrapper that passes the setter in every mode.
custom_output_wrapper_any_mode(objs, w, st, body) ==
  update_wrapper_after_call_exit(w, objs[w].func,
    Call(objs, objs[w].func, [st EXCEPT !.kwargs = SetAttr(@, "set_custom_output", w)], body))

\* custom_output.__call__.wrapper: the setter is passed in modes replace and append.
custom_output_wrapper(objs, w, st, body) ==
  update_wrapper_after_call_exit(w, objs[w].func,
    Call(objs, objs[w].func,
         IF objs[w].self.mode \in {"replace", "append"}
         THEN [st EXCEPT !.kwargs = SetAttr(@, "set_custom_output", w)]
         ELSE st,
         body))

\* available_from.__call__.wrapper: return func(*args, **kwargs), nothing else.
available_from_wrapper(objs, w, st, body) == Call(objs, objs[w].func, st, body)

\* Calling function object w.
Call(objs, w, st, body) ==
  CASE objs[w].kind = "function"       -> RunBody(st, body)
    [] objs[w].kind = "leaderboard"    -> leaderboard_wrapper(objs, w, st, body)
    [] objs[w].kind = "partial_credit" -> partial_credit_wrapper(objs, w, st, body)
    [] objs[w].kind = "timeout"        -> timeout_wrapper(objs, w, st, body)
    [] objs[w].kind = "custom_output"  -> custom_output_wrapper(objs, w, st, body)
    [] objs[w].kind = "available_from" -> available_from_wrapper(objs, w, st, body)

\* ------------------------------------------------------- result record
\* The per-test part of the Result Aggregator (json_test_runner.py, which the
\* runner with locks extends): the record built from the outcome of one test
\* and the attributes read on its outermost function after the call.
DefaultWeight == 1

\* The captured failure text of the outcome ("" on a pass).
FailureText(d, exc) ==
  IF exc = NoExc THEN ""
  ELSE IF "__hide_errors__" \in DOMAIN d THEN d["__hide_errors__"]
  ELSE "Test Failed: " \o exc.msg \o "\n"

\* The output reshaped by the custom-output mode.
OutputOf(d, exc) ==
  LET text == FailureText(d, exc)
      mode == GetAttr(d, "__custom_output_mode__", "error_only")
  IN  IF "__custom_output__" \notin DOMAIN d \/ mode = "error_only" THEN text
      ELSE IF mode = "replace" THEN d["__custom_output__"]
      ELSE IF text = "" THEN d["__custom_output__"]
      ELSE text \o "\n" \o d["__custom_output__"]

LeaderboardOf(d) ==
  IF "__leaderboard_column__" \notin DOMAIN d THEN Null
  ELSE Some([name  |-> d["__leaderboard_column__"],
             value |-> IF "__leaderboard_value__" \in DOMAIN d
                       THEN Some(d["__leaderboard_value__"]) ELSE Null,
             order |-> d["__leaderboard_sort_order__"]])

buildResult(d, exc) ==
  LET max_score == GetAttr(d, "__weight__", DefaultWeight)
      failed    == exc # NoExc
      score     == IF "__score__" \in DOMAIN d THEN d["__score__"]
                   ELSE IF failed THEN 0 ELSE max_score
  IN  [status        |-> IF exc.type \notin {"none", "AssertionError", "TestTimeout"} THEN "error"
                         ELSE IF failed \/ score < max_score THEN "failed" ELSE "passed",
       score         |-> score,
       max_score     |-> max_score,
       output        |-> OutputOf(d, exc),
       output_format |-> GetAttr(d, "__output_format__", "text"),
       leaderboard   |-> LeaderboardOf(d)]

\* The runner invokes the outermost function of the unit, catches what it
\* raises and builds the record; the alarm and its handler are the process's.
RunUnit(u, body, pending, installed) ==
  LET st == Call(u.objs, Top(u), InvocationState(u.attrs, pending, installed), body)
  IN  [st |-> st, result |-> buildResult(st.attrs[Top(u)], st.exc)]

\* --------------------------------------------------- the runner with locks
\* JSONTestRunnerWithLocks.__init__; a template is the pieces of the format string.
JSONTestRunnerWithLocks_init(include_locked_in_output, locked_message_template, strip_test_prefix, post_processor) ==
  [include_locked_in_output |-> include_locked_in_output,
   locked_message_template  |-> locked_message_template,
   strip_test_prefix        |-> strip_test_prefix,
   post_processor           |-> post_processor]

\* _now_utc: the instant in GS_NOW_UTC when it is set (a trailing Z read as
\* +00:00; the override carries its offset), else the wall clock.
now_utc(environ, wallclock) ==
  IF environ # Null
  THEN LET override == environ[1]
           offset == IF override.z THEN <<0>> ELSE override.offset
       IN  astimezone_utc(override.wall, offset[1])
  ELSE wallclock

\* _clean_test_name: a leading "Test" is removed on request (the names of the
\* model carry no digits or blanks after it).
clean_test_name(self, name) ==
  IF ~self.strip_test_prefix THEN name
  ELSE IF Len(name) >= 4 /\ SubSeq(name, 1, 4) = "Test"
  THEN SubSeq(name, 5, Len(name))
  ELSE name

\* The attributes of the test method: those of the outermost function object.
MethodAttrs(t) == t.u.attrs[Top(t.u)]

\* A locking check that lets every test through.
is_locked_never(test, now) == <<FALSE, Null>>

\* _is_locked: (now < unlock_dt, unlock_dt), or (False, None) without the attribute;
\* now is what _now_utc() returns at this call.
is_locked(test, now) ==
  IF "__gs_available_from__" \notin DOMAIN MethodAttrs(test)
  THEN <<FALSE, Null>>
  ELSE <<now < MethodAttrs(test)["__gs_available_from__"],
         Some(MethodAttrs(test)["__gs_available_from__"])>>

\* datetime.isoformat() of an instant in UTC.
isoformat(dt) == "T" \o IntToStr(dt) \o "+00:00"

\* str.format(iso=...) of a template.
RECURSIVE format(_, _)
format(template, iso) ==
  IF template = <<>> THEN ""
  ELSE (IF Head(template) = "{iso}" THEN iso ELSE Head(template)) \o format(Tail(template), iso)

\* test_result.get(field, 0.0) summed over the records.
RECURSIVE SumOf(_, _)
SumOf(records, field) ==
  IF records = <<>> THEN 0
  ELSE (IF field \in DOMAIN Head(records) THEN Head(records)[field] ELSE 0)
       + SumOf(Tail(records), field)

\* A placeholder that keeps the weight of the locked test as its max_score.
placeholder_with_weight(self, t, unlock_dt) ==
  LET msg == format(self.locked_message_template, isoformat(unlock_dt))
  IN  [name       |-> clean_test_name(self, t.name),
       score      |-> 0,
       max_score  |-> GetAttr(MethodAttrs(t), "__weight__", 1),
       output     |-> IF "__gs_available_from_reason__" \in DOMAIN MethodAttrs(t)
                      THEN msg \o "\nReason: " \o MethodAttrs(t)["__gs_available_from_reason__"]
                      ELSE msg,
       visibility |-> GetAttr(MethodAttrs(t), "__visibility__", "visible")]

\* The record post_proc appends for a locked test.
placeholder(self, t, unlock_dt) ==
  LET msg == format(self.locked_message_template, isoformat(unlock_dt))
  IN  [name       |-> clean_test_name(self, t.name),
       score      |-> 0,
       max_score  |-> 0,
       output     |-> IF "__gs_available_from_reason__" \in DOMAIN MethodAttrs(t)
                      THEN msg \o "\nReason: " \o MethodAttrs(t)["__gs_available_from_reason__"]
                      ELSE msg,
       visibility |-> GetAttr(MethodAttrs(t), "__visibility__", "visible")]

\* The post-processor the user installed: it leaves its mark in extra_data,
\* with the tests and the max_score of the payload it was given.
user_post_processor(pp, payload) ==
  [payload EXCEPT !.extra_data = Append(@, [mark      |-> pp.mark,
                                            tests     |-> payload.tests,
                                            max_score |-> payload.max_score])]

\* A call of a post-processor: the user's function, or the post_proc closure
\* of some call of run() with the variables it closed over.
RECURSIVE call_post_processor(_, _)

\* run.post_proc: max_score recomputed from the records of the payload, the
\* placeholders appended on request, then the previous post-processor.
post_proc(self, payload, tests, locked_tests, prev_post) ==
  LET p1 == [payload EXCEPT !.max_score = SumOf(payload.tests, "max_score")]
      p2 == IF self.include_locked_in_output
            THEN [p1 EXCEPT !.tests =
                    @ \o [k \in 1..Len(locked_tests) |->
                            placeholder(self, tests[locked_tests[k][1]], locked_tests[k][2])]]
            ELSE p1
  IN  IF prev_post # Null THEN call_post_processor(prev_post[1], p2) ELSE p2

call_post_processor(pp, payload) ==
  IF pp.kind = "user" THEN user_post_processor(pp, payload)
  ELSE post_proc(pp.self, payload, pp.tests, pp.locked_tests, pp.prev_post)

\* A parent runner that reports nothing after the first test that raised.
JSONTestRunner_run_stop_on_failure(tests, runnable_suite) ==
  LET results == [k \in 1..Len(runnable_suite) |->
                    RunUnit(tests[runnable_suite[k]].u, tests[runnable_suite[k]].body,
                            0, NoHandler)]
      reported == {k \in 1..Len(runnable_suite) :
                     \A j \in 1..(k - 1) : results[j].st.exc = NoExc}
      records == [k \in reported |->
                    [name          |-> tests[runnable_suite[k]].name,
                     status        |-> results[k].result.status,
                     score         |-> results[k].result.score,
                     max_score     |-> results[k].result.max_score,
                     output        |-> results[k].result.output,
                     output_format |-> results[k].result.output_format]]
  IN  [results |-> results,
       payload |-> [tests      |-> records,
                    score      |-> SumOf(records, "score"),
                    max_score  |-> SumOf(records, "max_score"),
                    extra_data |-> <<>>]]

\* JSONTestRunner.run (json_test_runner.py): every test of the suite is invoked
\* in order and gets its record; the totals are the sums over the records; the
\* installed post-processor then sees the payload.
JSONTestRunner_run(tests, runnable_suite) ==
  LET results == [k \in 1..Len(runnable_suite) |->
                    RunUnit(tests[runnable_suite[k]].u, tests[runnable_suite[k]].body,
                            0, NoHandler)]
      records == [k \in 1..Len(runnable_suite) |->
                    [name          |-> tests[runnable_suite[k]].name,
                     status        |-> results[k].result.status,
                     score         |-> results[k].result.score,
                     max_score     |-> results[k].result.max_score,
                     output        |-> results[k].result.output,
                     output_format |-> results[k].result.output_format]]
  IN  [results |-> results,
       payload |-> [tests      |-> records,
                    score      |-> SumOf(records, "score"),
                    max_score  |-> SumOf(records, "max_score"),
                    extra_data |-> <<>>]]

\* JSONTestRunnerWithLocks.run up to the call of the parent: nows[i] is what
\* _now_utc() returns when test i is checked.  The tests are split into
\* runnable and locked ones, post_proc is installed as self.post_processor,
\* and the parent runs the runnable ones and hands its payload to
\* self.post_processor.
run_until_restore(self, tests, nows) ==
  LET checks         == [i \in 1..Len(tests) |-> is_locked(tests[i], nows[i])]
      indices        == [i \in 1..Len(tests) |-> i]
      runnable_suite == SelectSeq(indices, LAMBDA i : ~checks[i][1])
      locked         == SelectSeq(indices, LAMBDA i : checks[i][1])
      locked_tests   == [k \in 1..Len(locked) |-> <<locked[k], checks[locked[k]][2][1]>>]
      prev_post      == self.post_processor
      installed      == [kind |-> "post_proc", self |-> [self EXCEPT !.post_processor = Null],
                         tests |-> tests, locked_tests |-> locked_tests,
                         prev_post |-> prev_post]
      parent         == JSONTestRunner_run(tests, runnable_suite)
  IN  [self      |-> [self EXCEPT !.post_processor = Some(installed)],
       prev_post |-> prev_post,
       checks    |-> checks,
       invoked   |-> runnable_suite,
       results   |-> parent.results,
       records   |-> parent.payload.tests,
       report    |-> call_post_processor(installed, parent.payload)]

\* A run() that returns with post_proc still installed.
run_without_restore(self, tests, nows) == run_until_restore(self, tests, nows)

\* JSONTestRunnerWithLocks.run: after the parent's run the previous
\* post-processor is put back.
run(self, tests, nows) ==
  [run_until_restore(self, tests, nows) EXCEPT
     !.self.post_processor = run_until_restore(self, tests, nows).prev_post]

\* --------------------------------------------------------- the rate limiter
\* Half an hour is the unit of time of the submission history.
Hour == 2

Day == 48

\* The text of a submission time ("2017-04-06T14:24:48.087023-07:00"): a wall-clock
\* reading with its UTC offset.
SubmissionTimeText(t) == "T" \o IntToStr(t.wall) \o (IF t.offset = 0 THEN "+0000" ELSE "+0100")

\* submission_datetime(s).timestamp(): strptime with %z gives an aware datetime,
\* whose timestamp is the instant it names.
submission_datetime(previous_submission) ==
  previous_submission.submission_time.wall - previous_submission.submission_time.offset

\* A warning put in front of the tests without the flag in extra_data.
prepend_rate_limit_warning_unflagged(previous_submission, reason) ==
  [tests |-> <<[status |-> "failed", name |-> "Submission Limit Exceeded",
                name_format |-> "text", output |-> reason, output_format |-> "text",
                visibility |-> "visible"]>>
             \o GetAttr(previous_submission.results[1], "tests", <<>>)]

\* prepend_rate_limit_warning: the warning goes in front of the tests of the
\* earlier results and extra_data becomes {"rate_limited": True}.
prepend_rate_limit_warning(previous_submission, reason) ==
  LET results == previous_submission.results[1]
      dummy_test_case ==
        [status        |-> "failed",
         name          |-> "Submission Limit Exceeded",
         name_format   |-> "text",
         output        |-> "WARNING: Rate Limit exceeded. The current submission will not be evaluated. "
                           \o "Falling back to earlier submission from "
                           \o SubmissionTimeText(previous_submission.submission_time)
                           \o ".  Reason: " \o reason,
         output_format |-> "text",
         visibility    |-> "visible"]
  IN  [tests      |-> <<dummy_test_case>> \o GetAttr(results, "tests", <<>>),
       extra_data |-> Some([rate_limited |-> TRUE])]

\* A check of the flag that takes no submission for rate-limited.
is_previous_submission_rate_limited_never(previous_submission) == FALSE

\* _is_previous_submission_rate_limited: results.get("extra_data", {}) may be
\* None; the flag defaults to False.
is_previous_submission_rate_limited(previous_submission) ==
  LET extras == GetAttr(previous_submission.results[1], "extra_data", Some(EmptyDict))
  IN  IF extras # Null THEN GetAttr(extras[1], "rate_limited", FALSE) ELSE FALSE

\* load_previous_submissions: the submissions of the metadata without those
\* whose results are None and without those that were rate-limited.
load_previous_submissions(previous_submissions) ==
  SelectSeq(SelectSeq(previous_submissions, LAMBDA s : s.results # Null),
            LAMBDA s : ~is_previous_submission_rate_limited(s))

\* The submissions in the order of the metadata.
sorted_as_listed(submissions) == submissions

\* x put behind the submissions of a sorted list that are not newer.
RECURSIVE InsertByTime(_, _)
InsertByTime(x, submissions) ==
  IF submissions = <<>> THEN <<x>>
  ELSE IF submission_datetime(Head(submissions)) <= submission_datetime(x)
  THEN <<Head(submissions)>> \o InsertByTime(x, Tail(submissions))
  ELSE <<x>> \o submissions

\* The first n submissions, oldest first, equal times in the order listed.
RECURSIVE SortedPrefix(_, _)
SortedPrefix(submissions, n) ==
  IF n = 0 THEN <<>> ELSE InsertByTime(submissions[n], SortedPrefix(submissions, n - 1))

\* sorted(submissions, key=submission_datetime)
sorted_by_submission_datetime(submissions) == SortedPrefix(submissions, Len(submissions))

\* The submissions with a timestamp at or after the given instant.
SubmittedSince(submissions, instant) ==
  SelectSeq(submissions, LAMBDA s : submission_datetime(s) >= instant)

\* The submissions with a timestamp after the given instant.
SubmittedAfter(submissions, instant) ==
  SelectSeq(submissions, LAMBDA s : submission_datetime(s) > instant)

\* get_earlier_results_if_rate_limited: None, or the results of an earlier
\* submission with the warning; now is datetime.now().
get_earlier_results_if_rate_limited(max_total, max_per_day, max_per_hour, metadata, now) ==
  IF max_total = Null /\ max_per_day = Null /\ max_per_hour = Null THEN Null
  ELSE
    LET previous_submissions      == load_previous_submissions(metadata)
        last_24_hours_submissions == SubmittedAfter(previous_submissions, now - Day)
        last_hour_submissions     == SubmittedAfter(previous_submissions, now - Hour)
    IN  IF max_total # Null /\ Len(previous_submissions) >= max_total[1]
        THEN Some(prepend_rate_limit_warning(
               sorted_by_submission_datetime(previous_submissions)[max_total[1]],
               "Limit of " \o IntToStr(max_total[1]) \o " maximum total submissions is in effect. "
               \o "You previously submitted " \o IntToStr(Len(previous_submissions)) \o " times. "
               \o "Please contact the course staff if you believe this is an error."))
        ELSE IF max_per_day # Null /\ Len(last_24_hours_submissions) >= max_per_day[1]
        THEN Some(prepend_rate_limit_warning(
               sorted_by_submission_datetime(last_24_hours_submissions)[max_per_day[1]],
               "Limit of " \o IntToStr(max_per_day[1]) \o " maximum submissions per 24 hours is in effect. "
               \o "In the past 24h, you submitted " \o IntToStr(Len(last_24_hours_submissions)) \o " times. "
               \o "Please contact the course staff if you believe this is an error."))
        ELSE IF max_per_hour # Null /\ Len(last_hour_submissions) >= max_per_hour[1]
        THEN Some(prepend_rate_limit_warning(
               sorted_by_submission_datetime(last_hour_submissions)[max_per_hour[1]],
               "Limit of " \o IntToStr(max_per_hour[1]) \o " maximum submissions per hour is in effect. "
               \o "In the past hour, you submitted " \o IntToStr(Len(last_hour_submissions)) \o " times. "
               \o "Please contact the course staff if you believe this is an error."))
        ELSE Null

\* ------------------------------------------------------------- the state
VARIABLES
  stack,    \* the decorators applied to the test function, first applied first
  unit,     \* the function objects of the test unit and their attributes
  alarm,    \* seconds left on the process's pending alarm (0: none)
  handler,  \* the timeout whose handle_timeout is installed for SIGALRM
  runs,     \* how many times the unit was invoked
  last,     \* the last invocation: body, exception, setter calls, record
  runner,   \* the JSONTestRunnerWithLocks object
  suite,    \* the test units handed to run(), in discovery order
  environ,  \* GS_NOW_UTC: Null when unset
  clock,    \* the wall clock, in hours
  ran,      \* the last run(): the checks, the tests invoked, the report
  caps,     \* max_total, max_per_day, max_per_hour of the rate limiter
  newest_first, \* whether the metadata lists the newest submission first
  history,  \* previous_submissions of the submission metadata
  today,    \* the instant of datetime.now() in the autograder
  answer,   \* the last call of get_earlier_results_if_rate_limited
  attempt   \* the last decorator expression evaluated, on which function, its outcome

testVars == <<stack, unit, alarm, handler, runs, last, attempt>>

runnerVars == <<runner, suite, environ, clock, ran>>

rateVars == <<caps, newest_first, history, today, answer>>

vars ==
  <<stack, unit, alarm, handler, runs, last, runner, suite, environ, clock, ran,
    caps, newest_first, history, today, answer, attempt>>

\* A body is a sequence of statements; nothing follows a statement that raises.
Bodies ==
  {b \in UNION {[1..n -> BodyOps] : n \in 0..MaxBody} :
     \A i \in 1..(Len(b) - 1) : b[i].op # "fail"}

NoResult ==
  [status |-> "none", score |-> 0, max_score |-> 0, output |-> "",
   output_format |-> "", leaderboard |-> Null]

NoRun ==
  [body |-> <<>>, exc |-> NoExc, calls |-> <<>>, replaced |-> FALSE,
   kwargs |-> {}, before |-> <<>>, result |-> NoResult]

\* No run() yet.
NotRun == [done |-> FALSE]

DefaultTemplate == <<"This test unlocks on ", "{iso}", ".">>

\* No decorator expression evaluated yet.
NoAttempt == [made |-> FALSE, ok |-> TRUE]

\* One test function, not yet run.
InitTest ==
  /\ stack = <<>>
  /\ attempt = NoAttempt
  /\ unit = NewUnit
  /\ alarm = 0
  /\ handler = NoHandler
  /\ runs = 0
  /\ last = NoRun

\* A runner with its defaults and nothing to run.
InitRunner ==
  /\ runner = JSONTestRunnerWithLocks_init(FALSE, DefaultTemplate, FALSE, Null)
  /\ suite = <<>>
  /\ environ = Null
  /\ clock = 0
  /\ ran = NotRun

\* No call of the rate limiter yet.
NotAsked == [asked |-> FALSE]

\* No cap, no earlier submission.
InitRate ==
  /\ caps = [max_total |-> Null, max_per_day |-> Null, max_per_hour |-> Null]
  /\ newest_first = FALSE
  /\ history = <<>>
  /\ today = 0
  /\ answer = NotAsked

Init == InitTest /\ InitRunner /\ InitRate

\* Every decorator instance the model applies.
Decorators ==
  {weight_init(v) : v \in Weights}
  \cup {leaderboard_init(c, "desc") : c \in Columns}
  \cup {partial_credit_init(w) : w \in PartialWeights}
  \cup {timeout_init(a[1], a[2]) : a \in TimeoutArgs}
  \cup {custom_output_init(a[1], a[2]) : a \in OutputArgs}

\* A decorator is applied at definition time, before the unit is ever run.
Apply(d) ==
  /\ runs = 0
  /\ Len(stack) < MaxStack
  /\ stack' = Append(stack, d)
  /\ unit' = Decorate(unit, d)
  /\ UNCHANGED <<alarm, handler, runs, last, attempt>>
  /\ UNCHANGED runnerVars
  /\ UNCHANGED rateVars

ApplyWeight == \E v \in Weights : Apply(weight_init(v))

\* A decorator that injects a setter is applied at most once to a function: a second
\* one would inject the same keyword argument again.
Applied(kind) == \E i \in 1..Len(stack) : stack[i].kind = kind

ApplyLeaderboard ==
  \E c \in Columns : ~Applied("leaderboard") /\ Apply(leaderboard_init(c, "desc"))

ApplyPartialCredit ==
  \E w \in PartialWeights : ~Applied("partial_credit") /\ Apply(partial_credit_init(w))

ApplyTimeout == \E a \in TimeoutArgs : Apply(timeout_init(a[1], a[2]))

ApplyCustomOutput ==
  \E a \in OutputArgs : ~Applied("custom_output") /\ Apply(custom_output_init(a[1], a[2]))

\* One invocation of the unit by the runner, with some body.
Invoke(body) ==
  \E r \in {RunUnit(unit, body, alarm, handler)} :
    /\ unit' = [unit EXCEPT !.attrs = r.st.attrs]
    /\ alarm' = r.st.alarm
    /\ handler' = r.st.handler
    /\ runs' = runs + 1
    /\ last' = [body |-> body, exc |-> r.st.exc, calls |-> r.st.calls,
                replaced |-> r.st.replaced, kwargs |-> DOMAIN r.st.kwargs,
                before |-> unit.attrs[Top(unit)], result |-> r.result]
    /\ UNCHANGED <<stack, attempt>>
    /\ UNCHANGED runnerVars
    /\ UNCHANGED rateVars

\* One pass of the runner invokes the unit once.
RunTest == \E body \in Bodies : runs = 0 /\ Invoke(body)

Next ==
  \/ ApplyWeight
  \/ ApplyLeaderboard
  \/ ApplyPartialCredit
  \/ ApplyTimeout
  \/ ApplyCustomOutput
  \/ RunTest

Spec == Init /\ [][Next]_vars

\* The same unit invoked again and again in one process (several passes of a
\* runner over the same test functions, or direct calls).
MaxRerunStack == 2

ApplyFew ==
  \E d \in Decorators :
    /\ Len(stack) < MaxRerunStack
    /\ d.kind \in {"weight", "timeout"} \/ ~Applied(d.kind)
    /\ Apply(d)

RunAgain == \E body \in Bodies : runs < MaxRuns /\ Invoke(body)

NextRerun == ApplyFew \/ RunAgain

SpecRerun == Init /\ [][NextRerun]_vars

\* ------------------------------------- decorator expressions of a test module
MaxExpressions == 2

\* custom_output(format, mode) with a misspelt format or mode.
BadOutputArgs == {<<"pdf", "replace">>, <<"html", "overwrite">>}

\* available_from(when): a string ending in Z, a datetime with offset +01:00
\* (both name instant 0, which has passed), None, and an int.
WhenArgs ==
  {Timestamp("str", 0, Null, TRUE), Timestamp("datetime", 1, Some(1), FALSE),
   Timestamp("none", 0, Null, FALSE), Timestamp("int", 0, Null, FALSE)}

\* The decorator expressions written over a test function.
Expressions ==
  {[kind |-> "partial_credit", weight |-> w] : w \in PartialWeights}
  \cup {[kind |-> "leaderboard", column_name |-> c, sort_order |-> "desc"] : c \in Columns}
  \cup {[kind |-> "custom_output", format |-> a[1], mode |-> a[2]] :
          a \in OutputArgs \cup BadOutputArgs}
  \cup {[kind |-> "available_from", when |-> w, reason |-> Null] : w \in WhenArgs}

\* The decorator object an expression evaluates to, or the error it raises.
Evaluate(e) ==
  CASE e.kind = "partial_credit" -> [ok |-> TRUE, self |-> partial_credit_init(e.weight)]
    [] e.kind = "leaderboard"    -> [ok |-> TRUE,
                                     self |-> leaderboard_init(e.column_name, e.sort_order)]
    [] e.kind = "custom_output"  -> custom_output(e.format, e.mode)
    [] e.kind = "available_from" -> available_from(e.when, e.reason)

\* @expression over the function: the expression is evaluated first and the
\* decorator it gives is then called with the function; an error of the
\* evaluation leaves the module, and nothing of it is decorated or run.
DecorateWith ==
  \E e \in Expressions :
    \E r \in {Evaluate(e)} :
      /\ runs = 0
      /\ attempt.ok
      /\ Len(stack) < MaxExpressions
      /\ ~Applied(e.kind)
      /\ attempt' = [made |-> TRUE, ok |-> r.ok, expression |-> e, func |-> unit, outcome |-> r]
      /\ IF r.ok
         THEN /\ stack' = Append(stack, r.self)
              /\ unit' = Decorate(unit, r.self)
         ELSE UNCHANGED <<stack, unit>>
      /\ UNCHANGED <<alarm, handler, runs, last>>
      /\ UNCHANGED runnerVars
      /\ UNCHANGED rateVars

\* The runner invokes the test: every unlock time has passed.
RunUnlocked == \E body \in Bodies : runs = 0 /\ attempt.ok /\ Invoke(body)

NextDecorate == DecorateWith \/ RunUnlocked

SpecDecorate == Init /\ [][NextDecorate]_vars

\* ------------------------------------------------ runs of the runner with locks
MaxTests == 2

MaxTime == 3

MaxAdvance == 1

\* The decorators of a test of the suite, first applied first: none, an unlock
\* time 02:00Z, an unlock time 04:00+01:00 with a reason under weight(2).
SuiteStacks ==
  {<<>>,
   <<available_from_init(Timestamp("str", 2, Null, TRUE), Null)>>,
   <<available_from_init(Timestamp("str", 1, Null, FALSE), Null)>>,
   <<available_from_init(Timestamp("datetime", 4, Some(1), FALSE), Some("exam week")),
     weight_init(2)>>}

SuiteBodies == {<<>>, <<[op |-> "fail", x |-> 0]>>}

\* The values of GS_NOW_UTC.
Overrides == {Null, Some(Timestamp("str", 2, Null, TRUE))}

Templates == {DefaultTemplate, <<"Locked until ", "{iso}">>}

PostProcessors == {Null, Some([kind |-> "user", mark |-> "seen"])}

\* A runner constructed with some configuration, in some environment.
InitRun ==
  /\ InitTest
  /\ InitRate
  /\ \E include \in BOOLEAN, template \in Templates, post \in PostProcessors :
       runner = JSONTestRunnerWithLocks_init(include, template, FALSE, post)
  /\ suite = <<>>
  /\ environ \in Overrides
  /\ clock = 0
  /\ ran = NotRun

\* Test discovery finds one more decorated test method.
AddTest ==
  \E ds \in SuiteStacks, body \in SuiteBodies :
    /\ ~ran.done
    /\ Len(suite) < MaxTests
    /\ suite' = Append(suite, [name |-> "test_" \o IntToStr(Len(suite) + 1),
                               ds   |-> ds,
                               u    |-> DecorateAll(NewUnit, ds),
                               body |-> body])
    /\ UNCHANGED <<runner, environ, clock, ran>>
    /\ UNCHANGED testVars
    /\ UNCHANGED rateVars

\* Time passes before the run.
Tick ==
  /\ ~ran.done
  /\ clock < MaxTime
  /\ clock' = clock + 1
  /\ UNCHANGED <<runner, suite, environ, ran>>
  /\ UNCHANGED testVars
  /\ UNCHANGED rateVars

\* The wall clock after the first i of the advances.
RECURSIVE ClockAfter(_, _, _)
ClockAfter(start, adv, i) == IF i = 0 THEN start ELSE ClockAfter(start, adv, i - 1) + adv[i]

\* One call of run(suite): the wall clock may advance before each check.
RunSuite ==
  \E adv \in [1..Len(suite) -> 0..MaxAdvance] :
    /\ suite # <<>>
    /\ ClockAfter(clock, adv, Len(suite)) <= MaxTime
    /\ \E r \in {run(runner, suite,
                     [i \in 1..Len(suite) |-> now_utc(environ, ClockAfter(clock, adv, i))])} :
         /\ runner' = r.self
         /\ suite' = [i \in 1..Len(suite) |->
                        IF \E k \in 1..Len(r.invoked) : r.invoked[k] = i
                        THEN [suite[i] EXCEPT !.u.attrs =
                                r.results[CHOOSE k \in 1..Len(r.invoked) : r.invoked[k] = i].st.attrs]
                        ELSE suite[i]]
         /\ ran' = [done    |-> TRUE,
                    count   |-> IF ran.done THEN ran.count + 1 ELSE 1,
                    before  |-> runner.post_processor,
                    started |-> now_utc(environ, clock),
                    nows    |-> [i \in 1..Len(suite) |-> now_utc(environ, ClockAfter(clock, adv, i))],
                    checks  |-> r.checks,
                    invoked |-> r.invoked,
                    records |-> r.records,
                    report  |-> r.report]
    /\ clock' = ClockAfter(clock, adv, Len(suite))
    /\ UNCHANGED environ
    /\ UNCHANGED testVars
    /\ UNCHANGED rateVars

\* The one run of a runner.
Run == ~ran.done /\ RunSuite

NextRun == AddTest \/ Tick \/ Run

SpecRun == InitRun /\ [][NextRun]_vars

\* ------------------------------------------------ submissions under rate limits
MaxHistory == 3

\* The caps an autograder is configured with.
TotalCaps == {Null, Some(1), Some(2)}

DayCaps == {Null, Some(2)}

HourCaps == {Null, Some(1)}

\* The instants at which submissions are made: the first one, then half an
\* hour, an hour, half an hour less than a day and a day after it.
Instants == {0, 1, Hour, Day - 1, Day}

\* A fresh report and the UTC offset of its submission time: without
\* extra_data at +00:00, or with extra_data null at +01:00.
FreshReports(serial) ==
  {[offset |-> 0,
    results |-> [tests |-> <<[name |-> "test_" \o IntToStr(serial), status |-> "passed"]>>]],
   [offset |-> Hour,
    results |-> [tests      |-> <<[name |-> "test_" \o IntToStr(serial), status |-> "passed"]>>,
                 extra_data |-> Null]]}

\* An autograder configured with some caps, for a student who has not submitted.
InitLimits ==
  /\ InitTest
  /\ InitRunner
  /\ caps \in [max_total : TotalCaps, max_per_day : {Null}, max_per_hour : {Null}]
  /\ newest_first \in BOOLEAN
  /\ history = <<>>
  /\ today = 0
  /\ answer = NotAsked

\* The metadata with one more submission: the platform lists the submissions
\* oldest first or newest first.
Listed(submission) ==
  IF newest_first THEN <<submission>> \o history ELSE Append(history, submission)

\* Time passes.
Pass ==
  \E instant \in Instants :
    /\ instant > today
    /\ Len(history) < MaxHistory
    /\ today' = instant
    /\ UNCHANGED <<caps, newest_first, history, answer>>
    /\ UNCHANGED testVars
    /\ UNCHANGED runnerVars

\* A submission is graded: the autograder asks the rate limiter and reports the
\* earlier results it returns, or else its fresh results; the platform keeps
\* the report in the history.
Grade ==
  \E fresh \in FreshReports(Len(history) + 1) :
    \E r \in {get_earlier_results_if_rate_limited(caps.max_total, caps.max_per_day,
                                                  caps.max_per_hour, history, today)} :
      /\ Len(history) < MaxHistory
      /\ answer' = [asked |-> TRUE, caps |-> caps, metadata |-> history, now |-> today,
                     returned |-> r]
      /\ history' = Listed([submission_time |-> [wall   |-> today + fresh.offset,
                                                  offset |-> fresh.offset],
                            results |-> IF r = Null THEN Some(fresh.results) ELSE r])
      /\ UNCHANGED <<caps, newest_first, today>>
      /\ UNCHANGED testVars
      /\ UNCHANGED runnerVars

\* The autograder of a submission never produced results.
Crash ==
  /\ Len(history) < MaxHistory
  /\ history' = Listed([submission_time |-> [wall |-> today, offset |-> 0], results |-> Null])
  /\ UNCHANGED <<caps, newest_first, today, answer>>
  /\ UNCHANGED testVars
  /\ UNCHANGED runnerVars

\* The course staff add a cap per 24 hours, per hour, or both to the
\* autograder, once.
Tighten ==
  \E per_day \in DayCaps, per_hour \in HourCaps :
    /\ caps.max_per_day = Null /\ caps.max_per_hour = Null
    /\ per_day # Null \/ per_hour # Null
    /\ caps' = [caps EXCEPT !.max_per_day = per_day, !.max_per_hour = per_hour]
    /\ UNCHANGED <<newest_first, history, today, answer>>
    /\ UNCHANGED testVars
    /\ UNCHANGED runnerVars

NextLimits == Pass \/ Grade \/ Crash \/ Tighten

SpecLimits == InitLimits /\ [][NextLimits]_vars

\* ------------------------------------------- one runner used for several runs
\* A test without a gate, or one that unlocks at 02:00Z, with or without a reason.
RepeatStacks ==
  {<<>>,
   <<available_from_init(Timestamp("str", 2, Null, TRUE), Null)>>,
   <<available_from_init(Timestamp("str", 2, Null, TRUE), Some("exam week"))>>}

\* A runner with or without locked tests in its output and with or without a
\* post-processor of the user.
InitRuns ==
  /\ InitTest
  /\ InitRate
  /\ \E include \in BOOLEAN, post \in PostProcessors :
       runner = JSONTestRunnerWithLocks_init(include, DefaultTemplate, FALSE, post)
  /\ suite = <<>>
  /\ environ = Null
  /\ clock = 0
  /\ ran = NotRun

\* Test discovery finds one more test method, before the first run.
Collect ==
  \E ds \in RepeatStacks :
    /\ ~ran.done
    /\ Len(suite) < MaxTests
    /\ suite' = Append(suite, [name |-> "test_" \o IntToStr(Len(suite) + 1),
                               ds   |-> ds,
                               u    |-> DecorateAll(NewUnit, ds),
                               body |-> <<>>])
    /\ UNCHANGED <<runner, environ, clock, ran>>
    /\ UNCHANGED testVars
    /\ UNCHANGED rateVars

\* Time passes before a run or between two runs.
Wait ==
  /\ clock < MaxTime
  /\ clock' = clock + 1
  /\ UNCHANGED <<runner, suite, environ, ran>>
  /\ UNCHANGED testVars
  /\ UNCHANGED rateVars

\* run(suite) is called on the runner, for the first time or again.
RunOnce == (ran.done => ran.count < MaxRuns) /\ RunSuite

NextRuns == Collect \/ Wait \/ RunOnce

SpecRuns == InitRuns /\ [][NextRuns]_vars

\* ------------------------------------------------ suites with tests that fail
\* No decorator, or a deadline of one second.
FailingStacks == {<<>>, <<timeout_init(1, Null)>>}

\* A body that returns, fails an assertion, raises another exception, or
\* sleeps for a second.
FailingBodies ==
  {<<>>, <<[op |-> "fail", x |-> 0]>>, <<[op |-> "raise", x |-> 0]>>, <<[op |-> "sleep", x |-> 1]>>}

\* Test discovery finds one more test method.
Discover ==
  \E ds \in FailingStacks, body \in FailingBodies :
    /\ ~ran.done
    /\ Len(suite) < MaxTests
    /\ suite' = Append(suite, [name |-> "test_" \o IntToStr(Len(suite) + 1),
                               ds   |-> ds,
                               u    |-> DecorateAll(NewUnit, ds),
                               body |-> body])
    /\ UNCHANGED <<runner, environ, clock, ran>>
    /\ UNCHANGED testVars
    /\ UNCHANGED rateVars

NextSuite == Discover \/ Run

SpecSuite == Init /\ [][NextSuite]_vars

\* ------------------------------------------------------------- claims
\* The sequence ds reordered in every way.
Perms(ds) == {[i \in 1..Len(ds) |-> ds[f[i]]] : f \in Permutations(1..Len(ds))}

\* The record of a freshly defined unit: the decorators ds applied first to last
\* to a new function, run once with the body, no alarm pending.
FreshResult(ds, body) == RunUnit(DecorateAll(NewUnit, ds), body, 0, NoHandler).result

\* Each decorator kind at most once in ds.
OneOfEachKind(ds) ==
  \A i, j \in 1..Len(ds) : i # j => ds[i].kind # ds[j].kind

\* No weight and partial_credit in ds that give different weights.
WeightsAgree(ds) ==
  \A i, j \in 1..Len(ds) :
    (ds[i].kind = "weight" /\ ds[j].kind = "partial_credit") => ds[i].val = ds[j].weight

\* C1 (as stated): whatever the order in which weight, timeout, partial_credit,
\* leaderboard and custom_output are applied to the same body, every permutation
\* of the stack yields the same Result Record.
C1_OrderIndependent ==
  (runs = 1 /\ OneOfEachKind(stack)) =>
    \A p \in Perms(stack) : FreshResult(p, last.body) = last.result

\* ds with the decorators at positions i and i + 1 exchanged.
SwapAt(ds, i) ==
  [k \in 1..Len(ds) |-> IF k = i THEN ds[i + 1] ELSE IF k = i + 1 THEN ds[i] ELSE ds[k]]

\* C1 (amended): the same, for stacks in which weight and partial_credit do not
\* both set __weight__ to different values.  Every reordering of a stack is a
\* chain of exchanges of neighbours, and every reordered stack is a stack the
\* model reaches: the records of all orders agree when, in every state, the
\* record is the one of each stack that differs by one such exchange.
C1_OrderIndependentSameWeight ==
  (runs = 1 /\ OneOfEachKind(stack) /\ WeightsAgree(stack)) =>
    \A i \in 1..(Len(stack) - 1) : FreshResult(SwapAt(stack, i), last.body) = last.result

\* A three-decorator stack with partial_credit, timeout and the weight that
\* agrees, whose body set a score and then timed out.
C1_Witness ==
  /\ runs = 1
  /\ Len(stack) = 3
  /\ OneOfEachKind(stack) /\ WeightsAgree(stack)
  /\ Applied("partial_credit") /\ Applied("timeout") /\ Applied("weight")
  /\ last.calls # <<>>
  /\ last.exc.type = "TestTimeout"

\* The attributes of the outermost function of the unit.
TopAttrs == unit.attrs[Top(unit)]

\* The run-scoped attribute each setter writes.
SetterAttr ==
  [set_score |-> "__score__", set_leaderboard_value |-> "__leaderboard_value__",
   set_custom_output |-> "__custom_output__"]

\* The calls of one setter among the calls the body made.
CallsOf(name) == SelectSeq(last.calls, LAMBDA c : c.op = name)

\* An attribute of the outermost function equals an integer or a text.
TopHolds(name, c) ==
  /\ SetterAttr[name] \in DOMAIN TopAttrs
  /\ IF name = "set_custom_output"
     THEN TopAttrs[SetterAttr[name]] = OutputText(c.x)
     ELSE TopAttrs[SetterAttr[name]] = c.x

\* C2: when the invocation of a unit wrapped by timeout and a stateful wrapper,
\* in either order, ends with TestTimeout, the outermost function holds for each
\* setter the value of the last call the body made before the deadline, and
\* nothing for a setter it only called after the deadline.
C2_SetBeforeTimeoutKept ==
  (runs = 1 /\ last.exc.type = "TestTimeout") =>
    \A name \in DOMAIN SetterAttr :
      IF CallsOf(name) = <<>>
      THEN SetterAttr[name] \notin DOMAIN TopAttrs
      ELSE TopHolds(name, CallsOf(name)[Len(CallsOf(name))])

\* timeout is the outermost decorator over partial_credit, the body set a score
\* and then slept into the deadline.
C2_Witness ==
  /\ runs = 1
  /\ last.exc.type = "TestTimeout"
  /\ Len(stack) >= 2
  /\ stack[Len(stack)].kind = "timeout"
  /\ Applied("partial_credit")
  /\ CallsOf("set_score") # <<>>
  /\ last.body[Len(last.body)].op = "sleep"

\* The body only called a setter after the deadline: the call never happened.
C2_WitnessLate ==
  /\ runs = 1
  /\ last.exc.type = "TestTimeout"
  /\ Applied("partial_credit")
  /\ last.body # <<>>
  /\ last.body[Len(last.body)].op = "set_score"
  /\ CallsOf("set_score") = <<>>

\* The static attributes a decorator sets on the function it is given.
StaticAttrsOf(d) ==
  CASE d.kind = "weight"         -> [__weight__ |-> d.val]
    [] d.kind = "partial_credit" -> [__weight__ |-> d.weight]
    [] d.kind = "leaderboard"    -> [__leaderboard_column__ |-> d.column_name,
                                     __leaderboard_sort_order__ |-> d.sort_order]
    [] d.kind = "custom_output"  -> [__output_format__ |-> d.format,
                                     __custom_output_mode__ |-> d.mode]
    [] OTHER                     -> EmptyDict

\* The decorators of the stack that set the static attribute a.
SettersOf(a) == {i \in 1..Len(stack) : a \in DOMAIN StaticAttrsOf(stack[i])}

\* C3: before and after an invocation, every static attribute a decorator of the
\* stack set is present on the outermost function, with the value of the
\* last-applied decorator that sets it.
C3_LastAppliedWins ==
  \A i \in 1..Len(stack) :
    \A a \in DOMAIN StaticAttrsOf(stack[i]) :
      /\ a \in DOMAIN TopAttrs
      /\ \A j \in SettersOf(a) :
           (\A k \in SettersOf(a) : k <= j) => TopAttrs[a] = StaticAttrsOf(stack[j])[a]

\* C4: after an invocation whose body did not call an injected setter, the
\* attribute of that setter is absent from the outermost function, also when an
\* earlier invocation of the same unit called it.
C4_AbsentWhenNotSet ==
  runs >= 1 =>
    \A name \in DOMAIN SetterAttr :
      CallsOf(name) = <<>> => SetterAttr[name] \notin DOMAIN TopAttrs

\* C5: once the wrapper of a timeout-wrapped test has returned (normally, with
\* the body's exception, or with TestTimeout) no alarm is pending.
C5_NoAlarmPending == runs >= 1 => alarm = 0

\* The body of a timeout-wrapped test raised before the deadline.
C5_Witness ==
  /\ runs = 1
  /\ Applied("timeout")
  /\ last.exc.type = "AssertionError"

\* The timeout decorators of the stack.
TimeoutsOf(ds) == {i \in 1..Len(ds) : ds[i].kind = "timeout"}

\* The seconds a body takes when nothing interrupts it: one per sleep.
RECURSIVE Duration(_)
Duration(body) ==
  IF body = <<>> THEN 0
  ELSE (IF Head(body).op = "sleep" THEN Head(body).x ELSE 0) + Duration(Tail(body))

\* The stack without its timeout decorators.
WithoutTimeouts(ds) == SelectSeq(ds, LAMBDA d : d.kind # "timeout")

\* The message timeout(seconds, error_message) is to carry.
ExpectedMessage(a) ==
  IF a[2] = Null THEN "test timed out after " \o IntToStr(a[1]) \o "s." ELSE a[2][1]

\* The timeout decorators of the stack whose deadline comes first.
EarliestTimeouts(ds) ==
  {i \in TimeoutsOf(ds) : \A j \in TimeoutsOf(ds) : ds[i].seconds <= ds[j].seconds}

\* C6: a test wrapped by timeout(N) whose body is still running N seconds after
\* the deadline was armed ends with TestTimeout carrying the custom message, or
\* "test timed out after Ns.", and is reported failed with score 0 (a score the
\* body reported before the deadline is C2's); a body that returns before the N
\* seconds gets the record of the same stack without the timeout decorators.
\* Of several timeout decorators the one with the fewest seconds is the one whose
\* N seconds pass first.
C6_TimeoutAbortsElseTransparent ==
  runs = 1 =>
    \A i \in EarliestTimeouts(stack) :
      IF Duration(last.body) >= stack[i].seconds
      THEN /\ last.exc.type = "TestTimeout"
           /\ \E a \in TimeoutArgs :
                a[1] = stack[i].seconds /\ last.exc.msg = ExpectedMessage(a)
           /\ last.result.status = "failed"
           /\ CallsOf("set_score") = <<>> => last.result.score = 0
      ELSE last.result = FreshResult(WithoutTimeouts(stack), last.body)

\* C7: arming a deadline while another is pending fails with an error of
\* the arming itself (not the body's own failure, not a TestTimeout), and no
\* timeout of the stack is left without its deadline: a body that runs for the
\* seconds of any of them does not return normally.
C7_NestedArmingFailsLoudly ==
  runs = 1 =>
    /\ last.replaced => last.exc.type \notin {"none", "AssertionError", "TestTimeout"}
    /\ \A i \in TimeoutsOf(stack) :
         Duration(last.body) >= stack[i].seconds => last.exc # NoExc

\* The tests of the suite.
Tests == 1..Len(suite)

\* Test i declares an unlock time.
HasUnlock(i) == \E k \in 1..Len(suite[i].ds) : suite[i].ds[k].kind = "available_from"

\* The unlock time test i declares, normalised to UTC, and its reason.
UnlockOf(i) ==
  parse_iso8601_utc((CHOOSE d \in {suite[i].ds[k] : k \in 1..Len(suite[i].ds)} :
                       d.kind = "available_from").when).dt

ReasonOf(i) ==
  (CHOOSE d \in {suite[i].ds[k] : k \in 1..Len(suite[i].ds)} : d.kind = "available_from").reason

\* The weight test i declares (default 1).
WeightOf(i) ==
  IF \E k \in 1..Len(suite[i].ds) : suite[i].ds[k].kind = "weight" THEN 2 ELSE DefaultWeight

\* Test i is locked when it is checked: it declares an unlock time that the
\* instant read for its check has not reached.
LockedAtCheck(i) == HasUnlock(i) /\ ran.nows[i] < UnlockOf(i)

\* Test i was invoked in the run.
Invoked(i) == \E k \in 1..Len(ran.invoked) : ran.invoked[k] = i

\* The records of the report with the name of test i; a placeholder is a record
\* without a status.
RecordsOf(i) == {k \in 1..Len(ran.report.tests) : ran.report.tests[k].name = suite[i].name}

IsPlaceholder(rec) == "status" \notin DOMAIN rec

Contains(s, sub) == \E i \in 1..(Len(s) - Len(sub) + 1) : SubSeq(s, i, i + Len(sub) - 1) = sub

\* C8: a test that is locked (it declares an unlock time and now is before it)
\* is not invoked by run(), and the max_score of the report is the sum of the
\* max_score of the records of the tests that ran, which leaves out the weight of
\* every locked test, with placeholders and without.
C8_LockedNotRunNotCounted ==
  ran.done =>
    /\ \A i \in Tests : LockedAtCheck(i) => ~Invoked(i)
    /\ ran.report.max_score = SumOf(ran.records, "max_score")
    /\ ran.report.max_score = SumOf([k \in 1..Len(ran.invoked) |->
                                       [w |-> WeightOf(ran.invoked[k])]], "w")

C8_Witness ==
  /\ ran.done
  /\ runner.include_locked_in_output
  /\ \E i, j \in Tests :
       /\ LockedAtCheck(i) /\ WeightOf(i) = 2
       /\ Invoked(j) /\ HasUnlock(j)
  /\ ran.report.max_score > 0

\* C9: in the report of a run every test that ran has exactly one record, a locked
\* test has exactly one placeholder when include_locked_in_output is set and
\* no record otherwise; a placeholder has score 0 and max_score 0, its output
\* contains the unlock time and the declared reason; the totals of the report
\* are those of the records of the tests that ran.
C9_OneRecordPerTest ==
  ran.done =>
    /\ \A i \in Tests :
         IF ~ran.checks[i][1]
         THEN /\ Cardinality(RecordsOf(i)) = 1
              /\ \A k \in RecordsOf(i) : ~IsPlaceholder(ran.report.tests[k])
         ELSE IF runner.include_locked_in_output
         THEN /\ Cardinality(RecordsOf(i)) = 1
              /\ \A k \in RecordsOf(i) :
                   /\ IsPlaceholder(ran.report.tests[k])
                   /\ Contains(ran.report.tests[k].output, isoformat(UnlockOf(i)))
                   /\ ReasonOf(i) # Null =>
                        Contains(ran.report.tests[k].output, ReasonOf(i)[1])
         ELSE RecordsOf(i) = {}
    /\ Len(ran.report.tests) = Cardinality(UNION {RecordsOf(i) : i \in Tests})
    /\ \A k \in 1..Len(ran.report.tests) :
         IsPlaceholder(ran.report.tests[k]) =>
           ran.report.tests[k].score = 0 /\ ran.report.tests[k].max_score = 0
    /\ ran.report.score = SumOf(ran.records, "score")
    /\ ran.report.max_score = SumOf(ran.records, "max_score")
    /\ SumOf(ran.report.tests, "score") = ran.report.score
    /\ SumOf(ran.report.tests, "max_score") = ran.report.max_score

C9_Witness ==
  /\ ran.done
  /\ runner.include_locked_in_output
  /\ \E i, j \in Tests :
       /\ ran.checks[i][1] /\ ReasonOf(i) # Null /\ WeightOf(i) = 2
       /\ RecordsOf(i) # {}
       /\ ~ran.checks[j][1] /\ RecordsOf(j) # {}

\* C10: the lock decisions of one run() are all taken against the instant at
\* which the run started: a test is locked exactly when it declares an
\* unlock time later than that instant, so two tests with the same unlock time
\* get the same decision, and no test is locked while a test with an earlier or
\* equal unlock time is run.
C10_SingleNow ==
  ran.done =>
    /\ \A i \in Tests : ran.checks[i][1] <=> (HasUnlock(i) /\ ran.started < UnlockOf(i))
    /\ \A i, j \in Tests :
         (HasUnlock(i) /\ HasUnlock(j) /\ UnlockOf(i) = UnlockOf(j)) =>
           ran.checks[i][1] = ran.checks[j][1]
    /\ \A i, j \in Tests :
         (HasUnlock(i) /\ HasUnlock(j) /\ UnlockOf(j) >= UnlockOf(i) /\ ran.checks[i][1]) =>
           ran.checks[j][1]

\* The decorators of one kind in the stack.
OfKind(kind) == {i \in 1..Len(stack) : stack[i].kind = kind}

\* C11: a test with weight W (every weight decorator of the stack declares W,
\* no partial_credit) that passes has score W, max_score W and status passed;
\* one that fails has score 0, max_score W and status failed.
C11_WeightIsMaxScore ==
  (runs = 1 /\ OfKind("weight") # {} /\ OfKind("partial_credit") = {}) =>
    \A W \in Weights :
      (\A i \in OfKind("weight") : stack[i].val = W) =>
        /\ last.result.max_score = W
        /\ last.exc = NoExc =>
             last.result.score = W /\ last.result.status = "passed"
        /\ last.exc # NoExc =>
             last.result.score = 0 /\ last.result.status = "failed"

\* A test with weight 2 under other decorators whose body failed.
C11_Witness ==
  /\ runs = 1
  /\ OfKind("weight") # {} /\ OfKind("partial_credit") = {}
  /\ \A i \in OfKind("weight") : stack[i].val = 2
  /\ Len(stack) >= 2
  /\ last.exc.type = "AssertionError"
  /\ last.result.max_score = 2 /\ last.result.score = 0

\* The value of the last call of a setter the body made.
LastCall(name) == CallsOf(name)[Len(CallsOf(name))].x

DefaultErrorText == "Test Failed: " \o last.exc.msg \o "\n"

\* C13: a test decorated with custom_output(format F, mode M) that raises: in
\* mode replace the output is the text O the body set, in mode append the
\* default error text followed by O, in mode error_only no setter is passed and
\* the output is the default error text; output_format is F in every mode.
C13_CustomOutputModes ==
  (runs = 1 /\ last.exc # NoExc) =>
    \A i \in OfKind("custom_output") :
      /\ last.result.output_format = stack[i].format
      /\ stack[i].mode = "error_only" =>
           /\ "set_custom_output" \notin last.kwargs
           /\ last.result.output = DefaultErrorText
      /\ (stack[i].mode = "replace" /\ CallsOf("set_custom_output") # <<>>) =>
           last.result.output = OutputText(LastCall("set_custom_output"))
      /\ (stack[i].mode = "append" /\ CallsOf("set_custom_output") # <<>>) =>
           /\ Len(last.result.output) > Len(DefaultErrorText)
           /\ SubSeq(last.result.output, 1, Len(DefaultErrorText)) = DefaultErrorText
           /\ Contains(SubSeq(last.result.output, Len(DefaultErrorText) + 1,
                              Len(last.result.output)),
                       OutputText(LastCall("set_custom_output")))

\* Mode append: the body set its output and then failed.
C13_Witness ==
  /\ runs = 1
  /\ last.exc.type = "AssertionError"
  /\ \E i \in OfKind("custom_output") : stack[i].mode = "append"
  /\ CallsOf("set_custom_output") # <<>>

\* C14: a leaderboard-decorated test has one leaderboard entry, for its column:
\* its value is null when the body never called set_leaderboard_value (also when
\* a timeout prevented the call) and the value passed to the setter otherwise.
C14_LeaderboardEntry ==
  runs = 1 =>
    \A i \in OfKind("leaderboard") :
      /\ last.result.leaderboard # Null
      /\ last.result.leaderboard[1].name = stack[i].column_name
      /\ last.result.leaderboard[1].value =
           IF CallsOf("set_leaderboard_value") = <<>> THEN Null
           ELSE Some(LastCall("set_leaderboard_value"))

\* The body slept into the deadline before it could report its value.
C14_Witness ==
  /\ runs = 1
  /\ OfKind("leaderboard") # {} /\ OfKind("timeout") # {}
  /\ last.exc.type = "TestTimeout"
  /\ \E k \in 1..Len(last.body) : last.body[k].op = "set_leaderboard_value"
  /\ last.result.leaderboard # Null
  /\ last.result.leaderboard[1].value = Null

\* Submission i of the metadata of the last call carries results with
\* extra_data.rate_limited = true.
Flagged(i) ==
  LET s == answer.metadata[i]
  IN  /\ s.results # Null
      /\ "extra_data" \in DOMAIN s.results[1]
      /\ s.results[1].extra_data # Null
      /\ "rate_limited" \in DOMAIN s.results[1].extra_data[1]
      /\ s.results[1].extra_data[1].rate_limited

\* The submissions of the metadata that count: they have results and were not
\* rate-limited themselves.
Counted == {i \in 1..Len(answer.metadata) : answer.metadata[i].results # Null /\ ~Flagged(i)}

\* The instant submission i was made at.
InstantOf(i) == answer.metadata[i].submission_time.wall - answer.metadata[i].submission_time.offset

CapKinds == {"max_total", "max_per_day", "max_per_hour"}

\* The submissions counted for a cap: all counted ones, or those of the last 24
\* hours, or those of the last hour.
CountedFor(kind) ==
  IF kind = "max_total" THEN Counted
  ELSE IF kind = "max_per_day" THEN {i \in Counted : InstantOf(i) > answer.now - Day}
  ELSE {i \in Counted : InstantOf(i) > answer.now - Hour}

\* The cap is configured and the count for it has reached it.
Reached(kind) == answer.caps[kind] # Null /\ Cardinality(CountedFor(kind)) >= answer.caps[kind][1]

\* Submission i is the n-th oldest of the set: fewer than n are older, and at
\* least n are not newer.
NthOldest(i, among, n) ==
  /\ i \in among
  /\ Cardinality({j \in among : InstantOf(j) < InstantOf(i)}) < n
  /\ Cardinality({j \in among : InstantOf(j) <= InstantOf(i)}) >= n

\* C15: get_earlier_results_if_rate_limited returns None when no cap is
\* configured or the count of previous submissions is below every configured
\* cap; when the count for a configured cap N has reached N it returns the
\* report of the N-th oldest submission counted for a reached cap: the warning
\* record "Submission Limit Exceeded" at index 0, then the tests of that report
\* in their order.
C15_NthOldestOrNone ==
  answer.asked =>
    IF \A kind \in CapKinds : ~Reached(kind)
    THEN answer.returned = Null
    ELSE /\ answer.returned # Null
         /\ \E kind \in CapKinds :
              /\ Reached(kind)
              /\ \E i \in CountedFor(kind) :
                   /\ NthOldest(i, CountedFor(kind), answer.caps[kind][1])
                   /\ Len(answer.returned[1].tests) >= 1
                   /\ answer.returned[1].tests[1].name = "Submission Limit Exceeded"
                   /\ answer.returned[1].tests[1].status = "failed"
                   /\ Tail(answer.returned[1].tests) = answer.metadata[i].results[1].tests

\* A cap of 2 is reached by two counted submissions that the metadata lists
\* newest first, made at different instants.
C15_Witness ==
  /\ answer.asked
  /\ answer.returned # Null
  /\ newest_first
  /\ \E kind \in CapKinds :
       /\ Reached(kind)
       /\ answer.caps[kind][1] = 2
       /\ \E i, j \in CountedFor(kind) : InstantOf(i) < InstantOf(j)

\* The metadata without the submissions that have no results and without the
\* rate-limited ones.
Kept == SelectSeq([i \in 1..Len(answer.metadata) |-> i], LAMBDA i : i \in Counted)

\* C16: previous submissions without results and previous submissions whose
\* results carry extra_data.rate_limited = true are not counted against any cap
\* and are never the fallback; a submission whose results have no such flag, or
\* null extra_data, is counted.
C16_ExcludedNeverCounted ==
  answer.asked =>
    /\ load_previous_submissions(answer.metadata) = [k \in 1..Len(Kept) |-> answer.metadata[Kept[k]]]
    /\ answer.returned =
         get_earlier_results_if_rate_limited(answer.caps.max_total, answer.caps.max_per_day,
                                             answer.caps.max_per_hour,
                                             [k \in 1..Len(Kept) |-> answer.metadata[Kept[k]]],
                                             answer.now)
    /\ (answer.returned = Null) = (\A kind \in CapKinds : ~Reached(kind))
    /\ answer.returned # Null =>
         \A i \in 1..Len(answer.metadata) :
           (answer.metadata[i].results = Null \/ Flagged(i)) =>
             \/ answer.metadata[i].results = Null
             \/ Tail(answer.returned[1].tests) # answer.metadata[i].results[1].tests

\* The metadata holds a rate-limited submission and one with null extra_data,
\* and the call falls back to an earlier report.
C16_Witness ==
  /\ answer.asked
  /\ answer.returned # Null
  /\ \E i \in 1..Len(answer.metadata) : Flagged(i)
  /\ \E i \in Counted :
       /\ "extra_data" \in DOMAIN answer.metadata[i].results[1]
       /\ answer.metadata[i].results[1].extra_data = Null

\* The expression names a format or a mode that custom_output does not know,
\* or a `when` that is None or neither a string nor a datetime.
Misconfigured(e) ==
  \/ /\ e.kind = "custom_output"
     /\ \/ e.format \notin {"text", "html", "simple_format", "md", "ansi"}
        \/ e.mode \notin {"error_only", "replace", "append"}
  \/ /\ e.kind = "available_from"
     /\ e.when.type \notin {"str", "datetime"}

\* C17: configuration mistakes are rejected when the decorator is constructed:
\* custom_output with a format or mode outside its set and available_from with
\* `when` None or of an unsupported type raise a validation error, and no
\* attribute is attached to the test unit (nor is the test run).
C17_RejectedAtConstruction ==
  (attempt.made /\ Misconfigured(attempt.expression)) =>
    /\ ~attempt.outcome.ok
    /\ attempt.outcome.error = "ValueError"
    /\ unit = attempt.func
    /\ \A i \in 1..Len(stack) : stack[i].kind # attempt.expression.kind
    /\ runs = 0

\* A misspelt mode over a function that already carries a decorator.
C17_Witness ==
  /\ attempt.made
  /\ attempt.expression.kind = "custom_output"
  /\ attempt.expression.mode \notin MODES
  /\ ~attempt.ok
  /\ Len(stack) = 1

\* The decorators that pass a setter to the test body.
StatefulKinds == {"partial_credit", "leaderboard", "custom_output"}

\* The attributes the setters write.
RunScoped == {"__score__", "__leaderboard_value__", "__custom_output__"}

\* The run-scoped attributes among those of a function object.
RunScopedOf(attrs) == [k \in (DOMAIN attrs) \cap RunScoped |-> attrs[k]]

\* The test function under decorator d alone, run once with the body.
Alone(d, body) == RunUnit(DecorateAll(NewUnit, <<d>>), body, 0, NoHandler)

\* C20: for an unlocked test, available_from stacked with a stateful wrapper
\* (partial_credit, leaderboard, custom_output), in either order, gives the
\* record of the stateful wrapper alone, and the value set through the setter
\* is on the outermost wrapper after the run, also when available_from is the
\* outermost decorator.
C20_AvailableFromTransparent ==
  (runs = 1 /\ Len(stack) = 2 /\ OfKind("available_from") # {}) =>
    \A j \in 1..Len(stack) :
      stack[j].kind \in StatefulKinds =>
        /\ last.result = Alone(stack[j], last.body).result
        /\ RunScopedOf(unit.attrs[Top(unit)])
             = RunScopedOf(Alone(stack[j], last.body).st.attrs[2])

\* What test i raises when it is run on its own.
RaisedBy(i) == RunUnit(DecorateAll(NewUnit, suite[i].ds), suite[i].body, 0, NoHandler).st.exc

WhenOf(i) ==
  (CHOOSE d \in {suite[i].ds[k] : k \in 1..Len(suite[i].ds)} : d.kind = "available_from").when

\* The instant that value names: a naive value is taken as UTC, Z is UTC, an
\* explicit offset is subtracted.
InstantNamed(when) ==
  IF when.type = "str" /\ when.z THEN when.wall
  ELSE IF when.offset = Null THEN when.wall
  ELSE when.wall - when.offset[1]

\* C19: _is_locked finds a test unlocked when it has no available-from
\* attribute or when now >= its unlock time (now equal to it included), and
\* locked exactly when the attribute is there and now < unlock time; the unlock
\* time compared is the value given to the decorator normalised to UTC.
C19_LockedIffBeforeUnlock ==
  ran.done =>
    \A i \in Tests :
      /\ ran.checks[i][1] = (HasUnlock(i) /\ ran.nows[i] < InstantNamed(WhenOf(i)))
      /\ ran.checks[i][1] => ran.checks[i][2] = Some(InstantNamed(WhenOf(i)))
      /\ ~HasUnlock(i) => ran.checks[i] = <<FALSE, Null>>
      /\ Invoked(i) = ~ran.checks[i][1]

\* One test with a naive unlock time checked at exactly that instant, and one
\* with an explicit offset checked just before its instant.
C19_Witness ==
  /\ ran.done
  /\ \E i \in Tests :
       /\ HasUnlock(i)
       /\ WhenOf(i).type = "str" /\ ~WhenOf(i).z /\ WhenOf(i).offset = Null
       /\ ran.nows[i] = InstantNamed(WhenOf(i))
       /\ Invoked(i)
  /\ \E i \in Tests :
       /\ HasUnlock(i)
       /\ WhenOf(i).offset # Null
       /\ ran.nows[i] = InstantNamed(WhenOf(i)) - 1
       /\ ~Invoked(i)

\* The first cap reached, in the order total, per 24 hours, per hour.
FirstReached ==
  IF Reached("max_total") THEN "max_total"
  ELSE IF Reached("max_per_day") THEN "max_per_day"
  ELSE "max_per_hour"

\* The reason stated for each cap, with the cap and the count it was reached by.
ReasonOfCap(kind, cap, count) ==
  IF kind = "max_total"
  THEN "Limit of " \o IntToStr(cap) \o " maximum total submissions is in effect. "
       \o "You previously submitted " \o IntToStr(count) \o " times. "
       \o "Please contact the course staff if you believe this is an error."
  ELSE IF kind = "max_per_day"
  THEN "Limit of " \o IntToStr(cap) \o " maximum submissions per 24 hours is in effect. "
       \o "In the past 24h, you submitted " \o IntToStr(count) \o " times. "
       \o "Please contact the course staff if you believe this is an error."
  ELSE "Limit of " \o IntToStr(cap) \o " maximum submissions per hour is in effect. "
       \o "In the past hour, you submitted " \o IntToStr(count) \o " times. "
       \o "Please contact the course staff if you believe this is an error."

\* The end of a text, from the length of the wanted ending.
EndsWith(text, ending) ==
  /\ Len(text) >= Len(ending)
  /\ SubSeq(text, Len(text) - Len(ending) + 1, Len(text)) = ending

\* C23: when several caps are configured and more than one is reached, the caps
\* apply in the order total, per 24 hours, per hour: the fallback report and
\* the stated reason are those of the first reached cap in that order; the
\* per-day and per-hour counts take only the submissions strictly newer than
\* now minus 24 hours and now minus 1 hour.
C23_CapsInFixedOrder ==
  answer.asked =>
    /\ (answer.returned = Null) = (\A kind \in CapKinds : ~Reached(kind))
    /\ answer.returned # Null =>
         /\ \E i \in CountedFor(FirstReached) :
              /\ NthOldest(i, CountedFor(FirstReached), answer.caps[FirstReached][1])
              /\ Tail(answer.returned[1].tests) = answer.metadata[i].results[1].tests
         /\ EndsWith(answer.returned[1].tests[1].output,
                     "Reason: " \o ReasonOfCap(FirstReached, answer.caps[FirstReached][1],
                                               Cardinality(CountedFor(FirstReached))))

\* The total cap of 2 and the hourly cap of 1 are both reached by two
\* submissions of the last hour, for which the two caps name different reports.
C23_Witness ==
  /\ answer.asked
  /\ answer.returned # Null
  /\ answer.caps.max_total = Some(2) /\ answer.caps.max_per_hour = Some(1)
  /\ Reached("max_total") /\ Reached("max_per_hour")
  /\ \E i, j \in CountedFor("max_per_hour") : InstantOf(i) < InstantOf(j)

\* A submission made exactly one hour before the call is the only one counted,
\* and the hourly cap of 1 is not reached.
C23_WitnessBoundary ==
  /\ answer.asked
  /\ answer.returned = Null
  /\ answer.caps.max_per_hour = Some(1)
  /\ Cardinality(Counted) = 1
  /\ \E i \in Counted : InstantOf(i) = answer.now - Hour

\* Submission i of the history carries the rate_limited flag.
FlaggedInHistory(i) ==
  /\ history[i].results # Null
  /\ "extra_data" \in DOMAIN history[i].results[1]
  /\ history[i].results[1].extra_data # Null
  /\ "rate_limited" \in DOMAIN history[i].results[1].extra_data[1]
  /\ history[i].results[1].extra_data[1].rate_limited

\* The submissions of the history that count against the caps.
CountedInHistory ==
  {i \in 1..Len(history) : history[i].results # Null /\ ~FlaggedInHistory(i)}

\* Submission i was made after submission j: the history lists the submissions
\* in the order they were made, or in the reverse order.
MadeAfter(i, j) == IF newest_first THEN i < j ELSE i > j

\* The submissions with a report that were made after every counted one.
AfterTheCounted ==
  {i \in 1..Len(history) :
     history[i].results # Null /\ \A j \in CountedInHistory : MadeAfter(i, j)}

\* No counted submission is newer than submission n.
NewestCounted(n) ==
  /\ n \in CountedInHistory
  /\ \A j \in CountedInHistory :
       history[j].submission_time.wall - history[j].submission_time.offset
         <= history[n].submission_time.wall - history[n].submission_time.offset

\* C22: over a sequence of submissions processed with a fixed max_total = N,
\* each report (the fresh one or the fallback) going into the history: the
\* submissions counted never exceed N; every submission after the N-th counted
\* one is answered with a report flagged extra_data.rate_limited = true; and
\* that fallback is always the report of the same N-th oldest counted
\* submission.
C22_TotalCapHolds ==
  caps.max_total # Null =>
    /\ Len(load_previous_submissions(history)) = Cardinality(CountedInHistory)
    /\ Cardinality(CountedInHistory) <= caps.max_total[1]
    /\ Cardinality(CountedInHistory) = caps.max_total[1] =>
         \E n \in CountedInHistory :
           /\ NewestCounted(n)
           /\ \A i \in AfterTheCounted :
                /\ FlaggedInHistory(i)
                /\ history[i].results[1].tests[1].name = "Submission Limit Exceeded"
                /\ Tail(history[i].results[1].tests) = history[n].results[1].tests
           /\ \A i, j \in AfterTheCounted : history[i].results = history[j].results

\* With max_total = 1, the second and the third submission were both answered
\* with the report of the first.
C22_Witness ==
  /\ caps.max_total = Some(1)
  /\ Len(history) = 3
  /\ Cardinality(CountedInHistory) = 1
  /\ Cardinality(AfterTheCounted) = 2

\* The placeholders of the report with the name of test i.
PlaceholdersOf(i) == {k \in RecordsOf(i) : IsPlaceholder(ran.report.tests[k])}

\* C21: after run() returns, the post_processor of the runner is the one that
\* was installed before the call; over any sequence of run() calls on one
\* runner the post-processor of the user is invoked exactly once per run, after
\* the lock adjustments, and each report holds the placeholder of each locked
\* test at most once.
C21_PostProcessorRestored ==
  ran.done =>
    /\ runner.post_processor = ran.before
    /\ runner.post_processor \in PostProcessors
    /\ IF runner.post_processor = Null
       THEN ran.report.extra_data = <<>>
       ELSE /\ Len(ran.report.extra_data) = 1
            /\ ran.report.extra_data[1].mark = runner.post_processor[1].mark
            /\ ran.report.extra_data[1].tests = ran.report.tests
            /\ ran.report.extra_data[1].max_score = ran.report.max_score
    /\ \A i \in Tests :
         /\ Cardinality(PlaceholdersOf(i)) <= 1
         /\ Cardinality(PlaceholdersOf(i)) =
              (IF ran.checks[i][1] /\ runner.include_locked_in_output THEN 1 ELSE 0)
    /\ ran.report.max_score = SumOf(ran.records, "max_score")

\* The second run of a runner with a post-processor of the user: one test is
\* locked again and has its placeholder in the report.
C21_Witness ==
  /\ ran.done
  /\ ran.count = 2
  /\ runner.post_processor # Null
  /\ runner.include_locked_in_output
  /\ \E i \in Tests : ran.checks[i][1] /\ Cardinality(PlaceholdersOf(i)) = 1

====
